---- MODULE Spec2Model ----
(***************************************************************************)
(* Model of DiscordRPC-rs.                                                 *)
(*                                                                         *)
(* Three parts of the repository are modelled side by side:                *)
(*                                                                         *)
(*  - the scheduler (src/src/lib.rs, IoProcess) that drives a synchronous  *)
(*    Client over a NamedPipe transport (src/src/windows.rs).  The         *)
(*    synchronous Client (open/read/write/close and its three states) is   *)
(*    not among the source files; it is modelled from the specification.   *)
(*    Specification: Spec.                                                 *)
(*                                                                         *)
(*  - the asynchronous request/response client (src/src/client.rs) with    *)
(*    its reader task, its table of received messages and its waiter       *)
(*    tasks.  Specification: ReqSpec.                                      *)
(*                                                                         *)
(*  - the codec (src/src/message.rs, encode_to and decode_from) over the   *)
(*    bytes of a NamedPipe.  Specification: CodecSpec.                     *)
(*                                                                         *)
(* FairSpec is Spec with the fairness of the program's own threads.        *)
(***************************************************************************)
EXTENDS Integers, Sequences, FiniteSets, TLC

\* lib.rs:165  const RECONNECT_DELAY: Duration = Duration::from_millis(1000)
RECONNECT_DELAY == 1000
\* lib.rs:126  const MAX_WAIT: Duration = Duration::from_millis(500)
MAX_WAIT == 500
\* lib.rs:128  SystemTime::UNIX_EPOCH, in milliseconds
UNIX_EPOCH == 0

\* Bounds of the model.
MaxTicks == 2       \* times the clock advances by MAX_WAIT
MaxSends == 2       \* number of send() calls
MaxInbox == 1       \* frames the peer may have in flight towards the client
MaxReq == 2         \* number of request() calls
MaxRx == 2          \* frames in flight towards the reader task
MaxFrames == 3      \* frames the peer sends to the reader task in total

VARIABLES
    \* ---- IoProcess (lib.rs:85-92) ----
    client_held,     \* IoProcess.client is Some
    thread_handle,   \* IoProcess.thread_handle is Some
    keep_running,    \* IoProcess.keep_running
    send_queue,      \* IoProcess.send_queue, a sequence of message ids
    sq_lock,         \* holder of the send_queue mutex: "free" or "io"
    \* ---- the loop thread (lib.rs:125-137) ----
    pc,              \* position of the loop thread
    last_connect,    \* the closure's local last_connect
    msg,             \* the message popped by the flush loop (0: none)
    \* ---- the caller of the IoProcess ----
    mpc,             \* position of the calling thread inside send()/stop()
    nsent,           \* number of send() calls made so far
    \* ---- Client (state machine) and NamedPipe ----
    state,           \* "Disconnected", "SentHandshake" or "Connected"
    handle,          \* NamedPipe.handle # INVALID_HANDLE_VALUE
    last_error,      \* the error that ended the last session ("None": none)
    \* ---- environment ----
    now,             \* SystemTime::now() in milliseconds
    peer_up,         \* the peer's pipe exists and is served
    inbox,           \* frames written by the peer, not yet read
    \* ---- history ----
    written,         \* ids handed to Client.write, in order
    delivered,       \* ids whose Client.write returned true
    dropped,         \* ids whose Client.write returned false
    dropped_closed,  \* ... of which: the client was not connected any more
    prev_attempt,    \* time of the open() before the last one (-1: none)
    last_attempt,    \* time of the last open() (-1: none)
    disc_fired,      \* on-disconnect notifications of the current session
    session_seen,    \* some session has begun
    handshake,       \* the Handshake open() wrote for the session in progress
    pong_writes,     \* Pong writes made for the frame Client.read took last
    noop_call,       \* the call that returned early last: "none", "start",
                     \* "stop" or "open"
    threads,         \* loop threads spawned and not joined
    \* ---- asynchronous Client (client.rs) ----
    messages,        \* Client.messages: nonce -> received frame
    rx,              \* frames sent by the peer, not yet decoded by the reader
    nrx,             \* number of frames the peer has sent
    nreq,            \* number of request() calls begun
    has_timeout,     \* request i was given Some(timeout)
    waiter,          \* waiter task of request i: "none", "spawning" (the
                     \* request is written, the task not spawned), "polling",
                     \* "returned"
    got,             \* the frame the waiter task of request i removed
    outcome,         \* what the caller of request i received
    result,          \* the frame returned to the caller of request i
    first_poll,      \* what the waiter's first look at the table found:
                     \* "none" (it has not looked yet), "hit" or "miss"
    \* ---- the codec over a NamedPipe, byte by byte (message.rs) ----
    input,           \* what the peer is about to send
    stage,           \* "new": nothing sent yet; "sent": the bytes are made
    unsent,          \* bytes made by the peer, not yet in the pipe
    pipe,            \* bytes in the pipe, not yet read
    conn_open,       \* the reading NamedPipe's handle is valid
    conn_peer,       \* the peer's end of the pipe exists
    dpc,             \* position inside decode_from
    dec_ty,          \* decode_from's ty, the u32 read from the pipe
    dec_len,         \* decode_from's len
    decoded,         \* what decode_from returned
    short_at,        \* the first read() of decode_from that did not fill its
                     \* buffer: "none", "ty", "len" or "payload"
    last_read        \* the last read(): <<value returned, bytes put into the
                     \* buffer, length of the buffer>>; <<>> before the first

ioVars == <<client_held, thread_handle, keep_running, send_queue, sq_lock,
            pc, last_connect, msg, mpc, nsent, state, handle, last_error,
            now, peer_up, inbox, written, delivered, dropped, dropped_closed,
            prev_attempt, last_attempt, disc_fired, session_seen, handshake,
            pong_writes, noop_call, threads>>

reqVars == <<messages, rx, nrx, nreq, has_timeout, waiter, got, outcome,
             result, first_poll>>

codecVars == <<input, stage, unsent, pipe, conn_open, conn_peer, dpc,
               dec_ty, dec_len, decoded, short_at, last_read>>

vars == <<ioVars, reqVars, codecVars>>

(***************************************************************************)
(* Frames the peer can write to the pipe (message.rs:10-16 gives the       *)
(* kinds; the READY frame is the one with cmd=DISPATCH and evt=READY).     *)
(***************************************************************************)
MessageType == {"Handshake", "Frame", "Close", "Ping", "Pong"}

ReadyFrame == [ty |-> "Frame", cmd |-> "DISPATCH", evt |-> "READY"]

PeerFrames ==
    {ReadyFrame, [ty |-> "Frame", cmd |-> "SET_ACTIVITY", evt |-> "NONE"]}
    \cup {[ty |-> t, cmd |-> "NONE", evt |-> "NONE"] :
            t \in MessageType \ {"Frame"}}

IsReady(f) == f.ty = "Frame" /\ f.cmd = "DISPATCH" /\ f.evt = "READY"

\* The ids of the messages passed to send(), in the order of the calls.
Enqueued == [i \in 1..nsent |-> i]

SeqToSet(s) == {s[i] : i \in 1..Len(s)}

\* The message open() sends first: kind Handshake, payload {v, client_id}.
NoHandshake == [ty |-> "None"]
Handshake == [ty |-> "Handshake", v |-> 1, client_id |-> "client_id"]

(***************************************************************************)
(* Initial state: IoProcess::new (lib.rs:96-109) around a Client that was  *)
(* created Disconnected over NamedPipe::new (windows.rs:126-128).  The     *)
(* wall clock is at least RECONNECT_DELAY past the epoch.                  *)
(***************************************************************************)
IoInit ==
    /\ client_held = TRUE
    /\ thread_handle = FALSE
    /\ keep_running = TRUE
    /\ send_queue = <<>>
    /\ sq_lock = "free"
    /\ pc = "off"
    /\ last_connect = UNIX_EPOCH
    /\ msg = 0
    /\ mpc = "idle"
    /\ nsent = 0
    /\ state = "Disconnected"
    /\ handle = FALSE
    /\ last_error = "None"
    /\ now = RECONNECT_DELAY
    /\ peer_up \in BOOLEAN
    /\ inbox = <<>>
    /\ written = <<>>
    /\ delivered = {}
    /\ dropped = {}
    /\ dropped_closed = {}
    /\ prev_attempt = -1
    /\ last_attempt = -1
    /\ disc_fired = 0
    /\ session_seen = FALSE
    /\ handshake = NoHandshake
    /\ pong_writes = 0
    /\ noop_call = "none"
    /\ threads = 0

(***************************************************************************)
(* NamedPipe (windows.rs)                                                  *)
(***************************************************************************)
\* windows.rs:167-169
NamedPipe_is_open == handle

\* windows.rs:171-174: the value of handle # INVALID_HANDLE_VALUE afterwards.
NamedPipe_close_leak == handle
NamedPipe_close == FALSE

\* windows.rs:132-165: CreateFileW succeeds when one of the ten pipes is
\* there; the result is the value of is_open() afterwards.
NamedPipe_open == IF NamedPipe_is_open THEN TRUE ELSE peer_up

\* windows.rs:198-212: the results WriteFile can give for a non-empty buffer.
NamedPipe_write == IF NamedPipe_is_open /\ peer_up THEN BOOLEAN ELSE {FALSE}

(***************************************************************************)
(* Client: the protocol state machine driven by the scheduler.             *)
(***************************************************************************)
Client_is_open == state = "Connected"

\* close(): notify if a session was live, close the transport, Disconnected.
Client_close_fired == IF state \in {"Connected", "SentHandshake"}
                      THEN disc_fired + 1 ELSE disc_fired

Client_close(err) ==
    /\ last_error' = err
    /\ disc_fired' = Client_close_fired
    /\ handshake' = NoHandshake
    /\ handle' = NamedPipe_close
    /\ state' = "Disconnected"
    /\ inbox' = <<>>

\* What a session that begins does to the record of the last session.
BeginSession ==
    disc_fired' = 0 /\ session_seen' = TRUE /\ last_error' = "None"

\* The state after the Handshake message was written.
handshake_sent_connected == "Connected"
handshake_sent == "SentHandshake"

\* open() called in state Disconnected: open the transport, send the
\* Handshake; SentHandshake if it was written, close() otherwise.
Client_open_optimistic ==
    IF ~NamedPipe_open
    THEN UNCHANGED <<state, handle, last_error, inbox, disc_fired, handshake,
                     session_seen>>
    ELSE \E ok \in (IF peer_up THEN BOOLEAN ELSE {FALSE}) :
           /\ state' = handshake_sent
           /\ handle' = TRUE
           /\ BeginSession
           /\ handshake' = IF ok THEN Handshake ELSE NoHandshake
           /\ UNCHANGED inbox
Client_open_disconnected ==
    IF ~NamedPipe_open
    THEN UNCHANGED <<state, handle, last_error, inbox, disc_fired, handshake,
                     session_seen>>
    ELSE \E ok \in (IF peer_up THEN BOOLEAN ELSE {FALSE}) :
           IF ok
           THEN /\ state' = handshake_sent
                /\ handle' = TRUE
                /\ BeginSession
                /\ handshake' = Handshake
                /\ UNCHANGED inbox
           ELSE Client_close(last_error) /\ UNCHANGED session_seen

(***************************************************************************)
(* The calling thread: IoProcess::start, stop, send (lib.rs:112-160)       *)
(***************************************************************************)
histVars == <<written, delivered, dropped, dropped_closed, prev_attempt,
              last_attempt, disc_fired, handshake, session_seen>>
callVars == <<noop_call, threads>>
clientVars == <<state, handle, last_error, inbox>>
envVars == <<now, peer_up>>
ioVarsButCall == <<client_held, thread_handle, keep_running, send_queue,
                   sq_lock, pc, last_connect, msg, mpc, nsent, clientVars,
                   envVars, histVars, pong_writes, threads>>

\* notify_all (lib.rs:152-154): a thread inside wait_timeout is woken, a
\* notification that finds no waiting thread is lost.
notify == IF pc = "waiting" THEN "uc_entry" ELSE pc

\* lib.rs:112-138.  The closure starts with last_connect = UNIX_EPOCH and
\* runs update_client before it first looks at keep_running.
start_respawn ==
    /\ mpc = "idle"
    /\ client_held \/ thread_handle
    /\ keep_running' = TRUE
    /\ client_held' = FALSE
    /\ thread_handle' = TRUE
    /\ last_connect' = UNIX_EPOCH
    /\ pc' = "uc_entry"
    /\ threads' = threads + 1
    /\ noop_call' = "none"
    /\ UNCHANGED <<send_queue, sq_lock, msg, mpc, nsent, clientVars, envVars,
                   histVars>>
    /\ UNCHANGED <<pong_writes>>
    /\ UNCHANGED <<reqVars, codecVars>>
start ==
    /\ mpc = "idle"
    /\ IF thread_handle
       THEN /\ noop_call' = "start"
            /\ UNCHANGED <<keep_running, client_held, thread_handle, pc,
                           last_connect, threads>>
       ELSE /\ client_held
            /\ keep_running' = TRUE
            /\ client_held' = FALSE
            /\ thread_handle' = TRUE
            /\ last_connect' = UNIX_EPOCH
            /\ pc' = "uc_entry"
            /\ threads' = threads + 1
            /\ noop_call' = "none"
    /\ UNCHANGED <<send_queue, sq_lock, msg, mpc, nsent, clientVars, envVars,
                   histVars>>
    /\ UNCHANGED <<pong_writes>>
    /\ UNCHANGED <<reqVars, codecVars>>

\* lib.rs:141-146: the early return, or the store of keep_running.
stop ==
    /\ mpc = "idle"
    /\ IF ~thread_handle
       THEN noop_call' = "stop" /\ UNCHANGED <<keep_running, mpc>>
       ELSE /\ keep_running' = FALSE
            /\ mpc' = "stop_notify"
            /\ noop_call' = "none"
    /\ UNCHANGED <<client_held, thread_handle, send_queue, sq_lock, pc,
                   last_connect, msg, nsent, clientVars, envVars, histVars>>
    /\ UNCHANGED <<pong_writes, threads>>
    /\ UNCHANGED <<reqVars, codecVars>>

\* lib.rs:215-219: Drop calls stop(); nothing is called on a dropped IoProcess.
drop ==
    /\ mpc = "idle"
    /\ IF ~thread_handle
       THEN mpc' = "dropped" /\ UNCHANGED keep_running
       ELSE keep_running' = FALSE /\ mpc' = "drop_notify"
    /\ noop_call' = "none"
    /\ UNCHANGED <<client_held, thread_handle, send_queue, sq_lock, pc,
                   last_connect, msg, nsent, clientVars, envVars, histVars>>
    /\ UNCHANGED <<pong_writes, threads>>
    /\ UNCHANGED <<reqVars, codecVars>>

\* lib.rs:147
stop_notify ==
    /\ mpc \in {"stop_notify", "drop_notify"}
    /\ pc' = notify
    /\ mpc' = IF mpc = "stop_notify" THEN "stop_join" ELSE "drop_join"
    /\ UNCHANGED <<client_held, thread_handle, keep_running, send_queue,
                   sq_lock, last_connect, msg, nsent, clientVars, envVars,
                   histVars>>
    /\ UNCHANGED <<pong_writes, callVars>>
    /\ UNCHANGED <<reqVars, codecVars>>

\* lib.rs:148: the Client that join() returns is put back into self.client.
client_after_join_lost == FALSE
client_after_join == TRUE

\* lib.rs:148: join() returns once the closure has returned the Client.
stop_join ==
    /\ mpc \in {"stop_join", "drop_join"}
    /\ pc = "done"
    /\ client_held' = client_after_join
    /\ thread_handle' = FALSE
    /\ threads' = threads - 1
    /\ pc' = "off"
    /\ mpc' = IF mpc = "stop_join" THEN "idle" ELSE "dropped"
    /\ UNCHANGED <<keep_running, send_queue, sq_lock, last_connect, msg,
                   nsent, clientVars, envVars, histVars>>
    /\ UNCHANGED <<pong_writes, noop_call>>
    /\ UNCHANGED <<reqVars, codecVars>>

\* lib.rs:158: lock, push_back, unlock.
push_front(q, m) == <<m>> \o q
push_back(q, m) == Append(q, m)

send ==
    /\ mpc = "idle"
    /\ nsent < MaxSends
    /\ sq_lock = "free"
    /\ nsent' = nsent + 1
    /\ send_queue' = push_back(send_queue, nsent + 1)
    /\ mpc' = "send_notify"
    /\ noop_call' = "none"
    /\ UNCHANGED <<client_held, thread_handle, keep_running, sq_lock, pc,
                   last_connect, msg, clientVars, envVars, histVars>>
    /\ UNCHANGED <<pong_writes, threads>>
    /\ UNCHANGED <<reqVars, codecVars>>

\* lib.rs:159
send_notify ==
    /\ mpc = "send_notify"
    /\ pc' = notify
    /\ mpc' = "idle"
    /\ UNCHANGED <<client_held, thread_handle, keep_running, send_queue,
                   sq_lock, last_connect, msg, nsent, clientVars, envVars,
                   histVars>>
    /\ UNCHANGED <<pong_writes, callVars>>
    /\ UNCHANGED <<reqVars, codecVars>>

(***************************************************************************)
(* The loop thread (lib.rs:125-137)                                        *)
(***************************************************************************)
\* lib.rs:130: the condition under which the while loop ends.
loop_exits_when_closed == ~keep_running \/ state = "Disconnected"
loop_exits == ~keep_running

\* lib.rs:130, and lib.rs:136 when the loop has ended.
loop_check ==
    /\ pc = "check"
    /\ pc' = IF loop_exits THEN "done" ELSE "lock_mux"
    /\ UNCHANGED <<client_held, thread_handle, keep_running, send_queue,
                   sq_lock, last_connect, msg, mpc, nsent, clientVars,
                   envVars, histVars>>
    /\ UNCHANGED <<pong_writes, callVars>>
    /\ UNCHANGED <<reqVars, codecVars>>

\* lib.rs:131-132: lock the mutex and enter wait_timeout.
loop_lock ==
    /\ pc = "lock_mux"
    /\ pc' = "waiting"
    /\ UNCHANGED <<client_held, thread_handle, keep_running, send_queue,
                   sq_lock, last_connect, msg, mpc, nsent, clientVars,
                   envVars, histVars>>
    /\ UNCHANGED <<pong_writes, callVars>>
    /\ UNCHANGED <<reqVars, codecVars>>

\* lib.rs:132: wait_timeout returns by timeout or spuriously.
loop_wake ==
    /\ pc = "waiting"
    /\ pc' = "uc_entry"
    /\ UNCHANGED <<client_held, thread_handle, keep_running, send_queue,
                   sq_lock, last_connect, msg, mpc, nsent, clientVars,
                   envVars, histVars>>
    /\ UNCHANGED <<pong_writes, callVars>>
    /\ UNCHANGED <<reqVars, codecVars>>

\* lib.rs:169-170: duration_since is Ok and the delay has elapsed.
backoff_elapsed ==
    now >= last_connect /\ now - last_connect >= RECONNECT_DELAY

\* lib.rs:178-182: a cycle that finds the client connected begins with the
\* read loop.
read_phase_skipped == "flush_lock"
read_phase == "uc_read"

\* lib.rs:164-176, and the branch to the read loop (lib.rs:178).
update_client_begin ==
    /\ pc = "uc_entry"
    /\ IF ~Client_is_open
       THEN IF backoff_elapsed
            THEN /\ last_connect' = now
                 /\ prev_attempt' = last_attempt
                 /\ last_attempt' = now
                 /\ IF state = "Disconnected"
                    THEN Client_open_disconnected /\ pc' = "check"
                    ELSE /\ pc' = "open_read"
                         /\ UNCHANGED <<clientVars, disc_fired, handshake, session_seen>>
            ELSE /\ pc' = "check"
                 /\ UNCHANGED <<last_connect, prev_attempt, last_attempt,
                                clientVars, disc_fired, handshake, session_seen>>
       ELSE /\ pc' = read_phase
            /\ UNCHANGED <<last_connect, prev_attempt, last_attempt,
                           clientVars, disc_fired, handshake, session_seen>>
    /\ UNCHANGED <<client_held, thread_handle, keep_running, send_queue,
                   sq_lock, msg, mpc, nsent, envVars, written, delivered,
                   dropped, dropped_closed>>
    /\ pong_writes' = 0
    /\ UNCHANGED <<callVars>>
    /\ UNCHANGED <<reqVars, codecVars>>

\* Where the loop thread continues when Client.read() returns: the read loop
\* of update_client calls read() again after a message and goes on to the
\* flush after None (lib.rs:181-203); open() returns to update_client, which
\* returns (lib.rs:172-175).
read_return_exit(some) ==
    IF pc = "uc_read" THEN (IF some THEN "uc_read" ELSE "done")
    ELSE "check"
read_return(some) ==
    IF pc = "uc_read" THEN (IF some THEN "uc_read" ELSE "flush_lock")
    ELSE "check"

\* NamedPipe::read (windows.rs:176-196) has something to return: the handle
\* is closed, PeekNamedPipe fails because the peer is gone, or ReadFile finds
\* data.  ReadFile on the empty pipe of a live peer does not return.
NamedPipe_read_returns == ~NamedPipe_is_open \/ ~peer_up \/ inbox # <<>>

\* One iteration of the loop of Client.read(): decode a frame
\* (message.rs:186-217 over windows.rs:176-196) and react to its kind.
client_read ==
    /\ pc \in {"open_read", "uc_read"}
    /\ IF state = "Disconnected"
       THEN /\ pc' = read_return(FALSE)
            /\ pong_writes' = 0
            /\ UNCHANGED <<clientVars, disc_fired, handshake>>
       ELSE /\ NamedPipe_read_returns
            /\ pong_writes' = IF NamedPipe_is_open /\ peer_up
                                  /\ Head(inbox).ty = "Ping"
                               THEN 1 ELSE 0
            /\ IF ~NamedPipe_is_open \/ ~peer_up
               THEN \* read() is false and the pipe is closed: PipeClosed
                    /\ Client_close("PipeClosed")
                    /\ pc' = read_return(FALSE)
               ELSE LET f == Head(inbox) IN
                    CASE f.ty = "Close" ->
                           /\ Client_close("ConnectionClosed")
                           /\ pc' = read_return(FALSE)
                      [] f.ty = "Frame" ->
                           /\ inbox' = Tail(inbox)
                           /\ state' = IF pc = "open_read" /\ IsReady(f)
                                       THEN "Connected" ELSE state
                           /\ pc' = read_return(TRUE)
                           /\ UNCHANGED <<handle, last_error, disc_fired, handshake>>
                      [] f.ty = "Ping" ->
                           \E ok \in NamedPipe_write :
                             IF ok
                             THEN /\ inbox' = Tail(inbox)
                                  /\ UNCHANGED <<state, handle, last_error, disc_fired, handshake, pc>>
                             ELSE /\ Client_close("PipeClosed")
                                  /\ pc' = read_return(FALSE)
                      [] f.ty = "Pong" ->
                           /\ inbox' = Tail(inbox)
                           /\ UNCHANGED <<state, handle, last_error, disc_fired, handshake, pc>>
                      [] OTHER ->
                           \* a kind the peer may not send: InvalidMessage
                           /\ Client_close("InvalidMessage")
                           /\ pc' = read_return(FALSE)
    /\ UNCHANGED <<client_held, thread_handle, keep_running, send_queue,
                   sq_lock, last_connect, msg, mpc, nsent, envVars, written,
                   delivered, dropped, dropped_closed, prev_attempt,
                   last_attempt, session_seen>>
    /\ UNCHANGED <<callVars>>
    /\ UNCHANGED <<reqVars, codecVars>>

\* lib.rs:205
flush_lock ==
    /\ pc = "flush_lock"
    /\ sq_lock = "free"
    /\ sq_lock' = "io"
    /\ pc' = "flush_pop"
    /\ UNCHANGED <<client_held, thread_handle, keep_running, send_queue,
                   last_connect, msg, mpc, nsent, clientVars, envVars,
                   histVars>>
    /\ UNCHANGED <<pong_writes, callVars>>
    /\ UNCHANGED <<reqVars, codecVars>>

\* lib.rs:206: pop_front, or the end of the block (lib.rs:211) on None.
pop_front(q) == [m |-> Head(q), rest |-> Tail(q)]

\* lib.rs:211-212: the flush ends update_client, which returns to the loop.
flush_done_reads_again == "uc_read"
flush_done == "check"

flush_pop ==
    /\ pc = "flush_pop"
    /\ IF send_queue = <<>>
       THEN /\ sq_lock' = "free"
            /\ pc' = flush_done
            /\ UNCHANGED <<send_queue, msg>>
       ELSE /\ msg' = pop_front(send_queue).m
            /\ send_queue' = pop_front(send_queue).rest
            /\ pc' = "flush_write"
            /\ UNCHANGED sq_lock
    /\ UNCHANGED <<client_held, thread_handle, keep_running, last_connect,
                   mpc, nsent, clientVars, envVars, histVars>>
    /\ UNCHANGED <<pong_writes, callVars>>
    /\ UNCHANGED <<reqVars, codecVars>>

\* lib.rs:207-209: Client.write(msg); nothing is done when it fails.
flush_write ==
    /\ pc = "flush_write"
    /\ \E ok \in NamedPipe_write :
         /\ written' = Append(written, msg)
         /\ delivered' = IF ok THEN delivered \cup {msg} ELSE delivered
         /\ dropped' = IF ok THEN dropped ELSE dropped \cup {msg}
         /\ dropped_closed' = IF ~ok /\ ~Client_is_open
                              THEN dropped_closed \cup {msg}
                              ELSE dropped_closed
    /\ msg' = 0
    /\ pc' = "flush_pop"
    /\ UNCHANGED <<client_held, thread_handle, keep_running, send_queue,
                   sq_lock, last_connect, mpc, nsent, clientVars, envVars,
                   prev_attempt, last_attempt, disc_fired, handshake, session_seen>>
    /\ UNCHANGED <<pong_writes, callVars>>
    /\ UNCHANGED <<reqVars, codecVars>>

(***************************************************************************)
(* close() called on the Client by its owner while no loop thread has it.  *)
(***************************************************************************)
client_close ==
    /\ client_held
    /\ mpc = "idle"
    /\ Client_close(last_error)
    /\ UNCHANGED <<client_held, thread_handle, keep_running, send_queue,
                   sq_lock, pc, last_connect, msg, mpc, nsent, envVars,
                   written, delivered, dropped, dropped_closed, prev_attempt,
                   last_attempt, session_seen>>
    /\ UNCHANGED <<pong_writes, callVars>>
    /\ UNCHANGED <<reqVars, codecVars>>

(***************************************************************************)
(* open() called on the Client by its owner while no loop thread has it:   *)
(* nothing when Connected, the transport and the Handshake when            *)
(* Disconnected.                                                           *)
(***************************************************************************)
client_open ==
    /\ client_held
    /\ mpc = "idle"
    /\ state \in {"Connected", "Disconnected"}
    /\ IF state = "Connected"
       THEN /\ noop_call' = "open"
            /\ UNCHANGED <<clientVars, disc_fired, handshake, session_seen>>
       ELSE /\ Client_open_disconnected
            /\ noop_call' = "none"
    /\ UNCHANGED <<client_held, thread_handle, keep_running, send_queue,
                   sq_lock, pc, last_connect, msg, mpc, nsent, envVars,
                   written, delivered, dropped, dropped_closed, prev_attempt,
                   last_attempt>>
    /\ UNCHANGED <<pong_writes, threads>>
    /\ UNCHANGED <<reqVars, codecVars>>

(***************************************************************************)
(* Environment: the peer and the clock                                     *)
(***************************************************************************)
peer_send ==
    /\ peer_up
    /\ handle
    /\ Len(inbox) < MaxInbox
    /\ \E f \in PeerFrames : inbox' = Append(inbox, f)
    /\ UNCHANGED <<client_held, thread_handle, keep_running, send_queue,
                   sq_lock, pc, last_connect, msg, mpc, nsent, state, handle,
                   last_error, envVars, histVars>>
    /\ UNCHANGED <<pong_writes, callVars>>
    /\ UNCHANGED <<reqVars, codecVars>>

peer_toggle ==
    /\ peer_up' = ~peer_up
    /\ UNCHANGED <<client_held, thread_handle, keep_running, send_queue,
                   sq_lock, pc, last_connect, msg, mpc, nsent, clientVars,
                   now, histVars>>
    /\ UNCHANGED <<pong_writes, callVars>>
    /\ UNCHANGED <<reqVars, codecVars>>

tick ==
    /\ now + MAX_WAIT <= RECONNECT_DELAY + MaxTicks * MAX_WAIT
    /\ now' = now + MAX_WAIT
    /\ UNCHANGED <<client_held, thread_handle, keep_running, send_queue,
                   sq_lock, pc, last_connect, msg, mpc, nsent, clientVars,
                   peer_up, histVars>>
    /\ UNCHANGED <<pong_writes, callVars>>
    /\ UNCHANGED <<reqVars, codecVars>>

Next ==
    \/ start \/ stop \/ drop \/ stop_notify \/ stop_join
    \/ send \/ send_notify
    \/ loop_check \/ loop_lock \/ loop_wake
    \/ update_client_begin \/ client_read
    \/ flush_lock \/ flush_pop \/ flush_write
    \/ client_close \/ client_open \/ peer_send \/ peer_toggle \/ tick

ReqIdle ==
    /\ messages = <<>>
    /\ rx = <<>>
    /\ nrx = 0
    /\ nreq = 0
    /\ has_timeout = <<>>
    /\ waiter = <<>>
    /\ got = <<>>
    /\ outcome = <<>>
    /\ result = <<>>
    /\ first_poll = <<>>

\* No frame is in the byte-level pipe and decode_from is not running.
CodecIdle ==
    /\ input = <<"raw", <<>>>>
    /\ stage = "sent"
    /\ unsent = <<>>
    /\ pipe = <<>>
    /\ conn_open = FALSE
    /\ conn_peer = FALSE
    /\ dpc = "done"
    /\ dec_ty = 0
    /\ dec_len = 0
    /\ decoded = <<"None">>
    /\ short_at = "none"
    /\ last_read = <<>>

Init == IoInit /\ ReqIdle /\ CodecIdle
Spec == Init /\ [][Next]_vars

\* The threads of the program run: the loop thread is scheduled, and so is
\* the caller once it is inside stop().  Nothing is assumed of the peer, the
\* clock or the calls the application makes.
LoopThread ==
    \/ loop_check \/ loop_lock \/ loop_wake \/ update_client_begin
    \/ client_read \/ flush_lock \/ flush_pop \/ flush_write
FairSpec ==
    Spec /\ WF_vars(LoopThread) /\ WF_vars(stop_notify) /\ WF_vars(stop_join)

(***************************************************************************)
(* Properties of the scheduler                                             *)
(***************************************************************************)
\* The loop thread took the frame at the head of the inbox in this step:
\* only Client.read() shortens the inbox of an open, served pipe.
Received(f) ==
    /\ pc \in {"open_read", "uc_read"}
    /\ handle /\ peer_up
    /\ inbox # <<>> /\ Head(inbox) = f
    /\ Len(inbox') < Len(inbox)

\* C1: two consecutive reconnect attempts (calls of Client.open() by
\* update_client) are never closer together than RECONNECT_DELAY, whatever
\* the sequence of start(), stop() and loop cycles.
C1_BackoffBetweenAttempts ==
    prev_attempt # -1 => last_attempt - prev_attempt >= RECONNECT_DELAY

\* C2: the messages handed to Client.write are, in order, the first
\* messages that send() enqueued: m1 enqueued before m2 is written before m2.
C2_FifoWriteOrder ==
    /\ Len(written) <= nsent
    /\ \A i \in 1..Len(written) : written[i] = Enqueued[i]

C2_Witness == Len(written) >= 2 /\ written[1] = 1 /\ written[2] = 2

\* C3: a message whose Client.write failed during the flush is not dropped:
\* it is still queued (or has meanwhile been written successfully).
C3_FailedWriteKept ==
    \A m \in dropped : m \in SeqToSet(send_queue) \/ m \in delivered

\* C4: a cycle of update_client that starts with the client not connected
\* leaves the outbound queue as it is, and no queued message is lost because
\* the connection dropped or a reconnect happened.
C4_QueuePersists ==
    [][ /\ (pc \in {"uc_entry", "open_read"} /\ ~Client_is_open /\ pc' # pc)
            => send_queue' = send_queue
        /\ dropped_closed' = {} ]_vars

C10_CloseOncePerSession ==
    /\ [](disc_fired = IF state = "Disconnected" /\ session_seen
                       THEN 1 ELSE 0)
    /\ [][ /\ (state \in {"Connected", "SentHandshake"}
                 /\ Received([ty |-> "Close", cmd |-> "NONE", evt |-> "NONE"]))
              => (state' = "Disconnected" /\ ~handle'
                    /\ disc_fired' = disc_fired + 1)
           /\ (state = "Disconnected" /\ state' = "Disconnected")
              => (~handle' /\ disc_fired' = disc_fired) ]_vars

C10_Witness ==
    /\ state = "Disconnected" /\ last_error = "ConnectionClosed"
    /\ ~handle /\ disc_fired = 1

PingFrame == [ty |-> "Ping", cmd |-> "NONE", evt |-> "NONE"]
HandshakeFrame == [ty |-> "Handshake", cmd |-> "NONE", evt |-> "NONE"]
FlushPcs == {"flush_lock", "flush_pop", "flush_write"}

\* C11: Client.read() issues exactly one Pong write for a Ping it receives
\* and none for any other frame; the Pong is either written (the session
\* goes on) or its failure closes the client.  The Pong is written in the
\* read phase, which precedes the flush of the outbound queue in the cycle:
\* queue messages are written only in the flush, and the flush never goes
\* back to the read phase within a cycle.
C11_PongBeforeFlush ==
    [][ /\ \A f \in PeerFrames :
             Received(f) => /\ pong_writes' = IF f = PingFrame THEN 1 ELSE 0
                            /\ written' = written
        /\ Received(PingFrame)
             => (state' = state \/ (state' = "Disconnected" /\ ~handle'))
        /\ written' # written => (pc = "flush_write" /\ pong_writes' = pong_writes)
        /\ pc \in FlushPcs => pc' \in FlushPcs \cup {"check"} ]_vars

C11_Witness == pong_writes = 1 /\ state = "Connected" /\ pc = "uc_read"

\* C12: a frame of a kind the peer may not send (Handshake) received by
\* read() closes the client with the InvalidMessage error (Disconnected,
\* transport closed), and the loop thread goes on with its cycle.
C12_InvalidKindCloses ==
    [][ Received(HandshakeFrame)
          => /\ state' = "Disconnected" /\ ~handle'
             /\ last_error' = "InvalidMessage"
             /\ thread_handle' /\ pc' \in {"flush_lock", "check"} ]_vars

C12_Witness ==
    /\ last_error = "InvalidMessage" /\ state = "Disconnected"
    /\ thread_handle /\ keep_running /\ pc = "waiting"

\* C17: while the loop runs there is exactly one loop thread and the
\* IoProcess does not hold the Client; a start() that finds the loop running
\* changes nothing: no thread is spawned, the Client is not taken again.
C17_StartIdempotent ==
    /\ [](threads = IF thread_handle THEN 1 ELSE 0)
    /\ [](thread_handle => ~client_held)
    /\ [][ (noop_call' = "start" /\ noop_call # "start")
             => /\ thread_handle
                /\ UNCHANGED <<client_held, thread_handle, keep_running,
                               send_queue, sq_lock, pc, last_connect, msg,
                               mpc, nsent, clientVars, envVars, histVars,
                               threads>> ]_vars

C17_Witness ==
    noop_call = "start" /\ thread_handle /\ threads = 1 /\ pc = "waiting"

\* C18: once stop() (or the stop() of Drop) has signalled termination, it
\* returns: the loop thread exits, the Client is handed back and no thread
\* handle remains; stop() without a running loop changes nothing.
C18_StopTerminates ==
    /\ (mpc \in {"stop_notify", "drop_notify"})
         ~> (mpc \in {"idle", "dropped"} /\ client_held /\ ~thread_handle)
    /\ [][ (noop_call' = "stop" /\ noop_call # "stop")
             => UNCHANGED ioVarsButCall ]_vars

\* C19: the loop thread returns only from the test of keep_running, with
\* the flag cleared, and only stop() clears the flag: no failed open(), read
\* error, peer close or failed write of a cycle ends the loop.
C19_LoopExitsOnlyOnStop ==
    /\ [](pc = "done" => ~keep_running)
    /\ [][ /\ (pc # "done" /\ pc' = "done") => (pc = "check" /\ ~keep_running)
           /\ (keep_running /\ ~keep_running')
                => (mpc = "idle" /\ mpc' \in {"stop_notify", "drop_notify"})
           /\ (thread_handle /\ ~thread_handle') => pc = "done" ]_vars

C19_Witness ==
    /\ pc = "lock_mux" /\ keep_running /\ thread_handle
    /\ last_error = "PipeClosed" /\ dropped # {}

\* C20: the loop thread is never inside wait_timeout once stop() has cleared
\* keep_running and issued its notification.
C20_WakeNeverLost ==
    ~(pc = "waiting" /\ ~keep_running /\ mpc \in {"stop_join", "drop_join"})

\* C21: the loop thread never calls Client.write while it holds the lock of
\* send_queue: it holds the lock only while it pops.
C21_NoWriteUnderLock ==
    /\ pc = "flush_write" => sq_lock = "free"
    /\ sq_lock = "io" => pc = "flush_pop"

C24_OpenHandshake ==
    /\ [](state = "Disconnected" <=> ~handle)
    /\ [](state # "Disconnected" <=> handshake = Handshake)
    /\ [][ /\ (state = "Disconnected" /\ state' # "Disconnected")
               => (state' = "SentHandshake" /\ handle' /\ peer_up)
           /\ (state = "Disconnected" /\ ~peer_up)
               => (state' = "Disconnected" /\ ~handle')
           /\ (noop_call' = "open" /\ noop_call # "open")
               => (state = "Connected" /\ UNCHANGED <<clientVars, histVars>>)
         ]_vars
C24_Witness ==
    /\ noop_call = "open" /\ client_held /\ state = "Connected"
    /\ handshake = Handshake /\ ~thread_handle /\ threads = 0

\* C26: at every moment exactly one of IoProcess.client and
\* IoProcess.thread_handle is populated; start() finds the Client it takes,
\* stop() finds the thread it joins, and while the thread handle is there
\* only the loop thread changes the Client.
C26_SingleOwner ==
    /\ [](client_held <=> ~thread_handle)
    /\ [][ /\ (~thread_handle /\ thread_handle') => (client_held /\ ~client_held')
           /\ (~client_held /\ client_held')
                => (thread_handle /\ ~thread_handle' /\ pc = "done")
           /\ (thread_handle
                 /\ <<state, handle, last_error>>' # <<state, handle, last_error>>)
                => pc \in {"uc_entry", "open_read", "uc_read"} ]_vars

\* The scheduler was started, used, stopped and dropped.
C26_Witness ==
    /\ mpc = "dropped" /\ client_held /\ ~thread_handle
    /\ nsent > 0 /\ session_seen /\ written # <<>>

\* C28: while the loop runs and the client stays connected, every message
\* that send() appended is eventually passed to Client.write; stated for the
\* runs in which the peer ends up alive and silent.
C28_SendIsWritten ==
    <>[](peer_up /\ inbox = <<>>)
    => \A m \in 1..MaxSends :
         (nsent >= m)
           ~> \/ m \in SeqToSet(written)
              \/ ~Client_is_open
              \/ ~thread_handle \/ ~keep_running

(***************************************************************************)
(* The asynchronous Client (client.rs): the reader task, the table of      *)
(* received messages, request() and its waiter task.                       *)
(*                                                                         *)
(* request() takes &mut self, so one caller at a time is inside it; the    *)
(* nonce of the i-th request is i (a fresh UUID, client.rs:89).            *)
(***************************************************************************)
Requests == 1..MaxReq
NoMsg == [nonce |-> -3, id |-> 0]
Undecodable == -2      \* a frame decode_from rejects
NoNonce == -1          \* a frame without a "nonce" string
UnknownNonce == 0      \* a nonce that no request of this client carries

EmptyTable == [n \in {} |-> NoMsg]

ReqInit ==
    /\ messages = EmptyTable
    /\ rx = <<>>
    /\ nrx = 0
    /\ nreq = 0
    /\ has_timeout = [i \in Requests |-> FALSE]
    /\ waiter = [i \in Requests |-> "none"]
    /\ got = [i \in Requests |-> NoMsg]
    /\ outcome = [i \in Requests |-> "none"]
    /\ result = [i \in Requests |-> NoMsg]
    /\ first_poll = [i \in Requests |-> "none"]

\* HashMap::insert and HashMap::remove
insert(t, k, v) == [n \in DOMAIN t \cup {k} |-> IF n = k THEN v ELSE t[n]]
remove(t, k) == [n \in DOMAIN t \ {k} |-> t[n]]

\* client.rs:85-94: the nonce and the write (an error returns at once); the
\* waiter task is not spawned yet.
request ==
    /\ nreq < MaxReq
    /\ \A i \in Requests : outcome[i] # "pending"
    /\ nreq' = nreq + 1
    /\ \E to \in BOOLEAN, ok \in BOOLEAN :
         IF ok
         THEN /\ outcome' = [outcome EXCEPT ![nreq + 1] = "pending"]
              /\ has_timeout' = [has_timeout EXCEPT ![nreq + 1] = to]
              /\ waiter' = [waiter EXCEPT ![nreq + 1] = "spawning"]
         ELSE /\ outcome' = [outcome EXCEPT ![nreq + 1] = "io_error"]
              /\ UNCHANGED <<has_timeout, waiter>>
    /\ UNCHANGED <<messages, rx, nrx, got, result>>
    /\ UNCHANGED first_poll
    /\ UNCHANGED <<ioVars, codecVars>>

\* client.rs:96-98: the waiter task is spawned; it has not polled the table.
spawn_waiter(i) ==
    /\ waiter[i] = "spawning"
    /\ waiter' = [waiter EXCEPT ![i] = "polling"]
    /\ UNCHANGED <<messages, rx, nrx, nreq, has_timeout, got, outcome, result>>
    /\ UNCHANGED first_poll
    /\ UNCHANGED <<ioVars, codecVars>>

\* client.rs:102: the key the waiter task of request i looks up.
waiter_key_any(i) ==
    IF DOMAIN messages = {} THEN i ELSE CHOOSE n \in DOMAIN messages : TRUE
waiter_key(i) == i

\* What the first turn of the waiter's loop found in the table.
first_poll_after(i) ==
    IF first_poll[i] # "none" THEN first_poll[i]
    ELSE IF waiter_key(i) \in DOMAIN messages THEN "hit" ELSE "miss"

\* client.rs:101-106: one turn of the waiter's loop.
waiter_poll(i) ==
    /\ waiter[i] = "polling"
    /\ IF waiter_key(i) \in DOMAIN messages
       THEN /\ got' = [got EXCEPT ![i] = messages[waiter_key(i)]]
            /\ messages' = remove(messages, waiter_key(i))
            /\ waiter' = [waiter EXCEPT ![i] = "returned"]
       ELSE UNCHANGED <<got, messages, waiter>>
    /\ first_poll' = [first_poll EXCEPT ![i] = first_poll_after(i)]
    /\ UNCHANGED <<rx, nrx, nreq, has_timeout, outcome, result>>
    /\ UNCHANGED <<ioVars, codecVars>>

\* client.rs:110-116: the join handle is ready, with or without a timeout
\* around it.
request_done(i) ==
    /\ outcome[i] = "pending"
    /\ waiter[i] = "returned"
    /\ outcome' = [outcome EXCEPT ![i] = "response"]
    /\ result' = [result EXCEPT ![i] = got[i]]
    /\ UNCHANGED <<messages, rx, nrx, nreq, has_timeout, waiter, got>>
    /\ UNCHANGED first_poll
    /\ UNCHANGED <<ioVars, codecVars>>

\* client.rs:110-112: the timeout elapses while the join handle is not
\* ready.  The handle is dropped, which detaches the waiter task.
request_timeout_aborts(i) ==
    /\ outcome[i] = "pending"
    /\ has_timeout[i]
    /\ waiter[i] \notin {"spawning", "returned"}
    /\ outcome' = [outcome EXCEPT ![i] = "timeout"]
    /\ waiter' = [j \in Requests |-> IF waiter[j] = "polling" THEN "none"
                                     ELSE waiter[j]]
    /\ messages' = EmptyTable
    /\ UNCHANGED <<rx, nrx, nreq, has_timeout, got, result>>
    /\ UNCHANGED first_poll
    /\ UNCHANGED <<ioVars, codecVars>>

request_timeout(i) ==
    /\ outcome[i] = "pending"
    /\ has_timeout[i]
    /\ waiter[i] \notin {"spawning", "returned"}
    /\ outcome' = [outcome EXCEPT ![i] = "timeout"]
    /\ UNCHANGED <<messages, rx, nrx, nreq, has_timeout, waiter, got, result>>
    /\ UNCHANGED first_poll
    /\ UNCHANGED <<ioVars, codecVars>>

\* client.rs:39-59: one turn of the reader task's loop.
reader_drops_unexpected ==
    /\ rx # <<>>
    /\ rx' = Tail(rx)
    /\ messages' = IF Head(rx).nonce \in Requests
                      /\ first_poll[Head(rx).nonce] # "none"
                   THEN insert(messages, Head(rx).nonce, Head(rx))
                   ELSE messages
    /\ UNCHANGED <<nrx, nreq, has_timeout, waiter, got, outcome, result>>
    /\ UNCHANGED first_poll
    /\ UNCHANGED <<ioVars, codecVars>>
reader ==
    /\ rx # <<>>
    /\ rx' = Tail(rx)
    /\ messages' = IF Head(rx).nonce \in {Undecodable, NoNonce}
                   THEN messages
                   ELSE insert(messages, Head(rx).nonce, Head(rx))
    /\ UNCHANGED <<nrx, nreq, has_timeout, waiter, got, outcome, result>>
    /\ UNCHANGED first_poll
    /\ UNCHANGED <<ioVars, codecVars>>

\* The peer writes a frame: a reply to a request it has received, or a
\* frame that answers none.
peer_respond ==
    /\ nrx < MaxFrames
    /\ Len(rx) < MaxRx
    /\ nrx' = nrx + 1
    /\ \E n \in {Undecodable, NoNonce, UnknownNonce}
                   \cup {i \in Requests : waiter[i] # "none"} :
         rx' = Append(rx, [nonce |-> n, id |-> nrx + 1])
    /\ UNCHANGED <<messages, nreq, has_timeout, waiter, got, outcome, result>>
    /\ UNCHANGED first_poll
    /\ UNCHANGED <<ioVars, codecVars>>

ReqNext ==
    \/ request
    \/ \E i \in Requests : spawn_waiter(i)
    \/ \E i \in Requests : waiter_poll(i)
    \/ \E i \in Requests : request_done(i)
    \/ \E i \in Requests : request_timeout(i)
    \/ reader
    \/ peer_respond

ReqStart == IoInit /\ peer_up = TRUE /\ ReqInit /\ CodecIdle
ReqSpec == ReqStart /\ [][ReqNext]_vars

(***************************************************************************)
(* Properties of request/response correlation                              *)
(***************************************************************************)
\* C5: a frame carrying nonce n is taken from the table only by the waiter
\* of the request with nonce n and returned only to that request's caller;
\* a frame whose nonce matches no pending request causes no delivery and no
\* error.
C5_Correlation ==
    /\ [](\A i \in Requests :
            /\ got[i] # NoMsg => got[i].nonce = i
            /\ outcome[i] = "response" =>
                 (result[i] # NoMsg /\ result[i].nonce = i))
    /\ [][ (rx # <<>> /\ Len(rx') < Len(rx)
              /\ \A i \in Requests :
                   outcome[i] = "pending" => Head(rx).nonce # i)
           => UNCHANGED <<outcome, result, got, waiter>> ]_vars

\* Two waiters were alive together and the replies came in the other order.
C5_Witness ==
    /\ got[1] # NoMsg /\ got[2] # NoMsg
    /\ got[2].id < got[1].id
    /\ outcome[2] = "response" /\ result[2] = got[2]

\* C6: once the caller has the timeout error, the waiter of that nonce is
\* cancelled and the table holds no entry for the nonce.
C6_TimeoutCancelsWaiter ==
    \A i \in Requests :
      outcome[i] = "timeout" => (waiter[i] # "polling" /\ i \notin DOMAIN messages)

\* C7: a request ends with the response or with the timeout error, never
\* both, and no response is consumed by a waiter whose caller already has
\* the timeout error.
C7_OneOutcome ==
    \A i \in Requests :
      /\ outcome[i] = "timeout" => (got[i] = NoMsg /\ result[i] = NoMsg)
      /\ outcome[i] = "response" => result[i] = got[i]

\* C8: the step in which request i times out changes the outcome of request
\* i only: the table, the waiters and outcomes of the other requests, the
\* frames in flight to the reader and the requests written stay as they are.
C8_TimeoutIsLocal ==
    [][ \A i \in Requests :
          (outcome[i] = "pending" /\ outcome'[i] = "timeout")
          => /\ messages' = messages
             /\ rx' = rx /\ nrx' = nrx /\ nreq' = nreq
             /\ \A j \in Requests \ {i} :
                  /\ waiter'[j] = waiter[j]
                  /\ got'[j] = got[j]
                  /\ outcome'[j] = outcome[j]
                  /\ result'[j] = result[j] ]_vars

\* A request timed out and a later request still received its response.
C8_Witness ==
    /\ outcome[1] = "timeout"
    /\ outcome[2] = "response" /\ result[2].nonce = 2

\* C25: every entry of the table of pending requests is keyed by the nonce
\* of a request that is outstanding (written, not delivered, not timed out);
\* the table holds nothing for a nonce without a waiter.
C25_NoDanglingEntry ==
    \A n \in DOMAIN messages :
      /\ n \in Requests
      /\ outcome[n] = "pending"
      /\ waiter[n] \in {"spawning", "polling"}

\* C27: a frame with the nonce of a request that the reader receives after
\* the request was written and before the waiter looked at the table for the
\* first time is not lost: it is put into the table, it leaves the table only
\* into the hands of that waiter, the waiter's first look finds it, no step
\* on the way to the caller is blocked, and what the caller receives is what
\* the waiter took.
C27_EarlyResponseDelivered ==
    /\ [][ \A n \in Requests :
             /\ (rx # <<>> /\ rx' = Tail(rx) /\ Head(rx).nonce = n)
                  => (n \in DOMAIN messages' /\ messages'[n] = Head(rx))
             /\ (n \in DOMAIN messages /\ n \notin DOMAIN messages')
                  => (got'[n] = messages[n] /\ waiter'[n] = "returned")
             /\ (n \in DOMAIN messages /\ first_poll[n] = "none")
                  => first_poll'[n] \in {"none", "hit"} ]_vars
    /\ [](\A n \in Requests :
            /\ waiter[n] = "spawning" => ENABLED spawn_waiter(n)
            /\ waiter[n] = "polling" => ENABLED waiter_poll(n)
            /\ (waiter[n] = "returned" /\ outcome[n] = "pending")
                 => ENABLED request_done(n)
            /\ first_poll[n] = "hit" => (got[n] # NoMsg /\ got[n].nonce = n)
            /\ outcome[n] = "response" => result[n] = got[n])

\* The response was in the table when the waiter looked first, and the caller
\* received it.
C27_Witness ==
    \E n \in Requests :
      /\ first_poll[n] = "hit"
      /\ outcome[n] = "response" /\ result[n].nonce = n

(***************************************************************************)
(* The codec (message.rs) over a NamedPipe (windows.rs), byte by byte.     *)
(*                                                                         *)
(* A payload is a JSON document.  The documents of the model are null,     *)
(* booleans, integers, strings and objects of at most one member; text is  *)
(* a sequence of bytes, a string a sequence of code points.                *)
(***************************************************************************)
MaxStr == 1         \* length of the strings in a payload document

QUOTE == 34
BACKSLASH == 92
LBRACE == 123
RBRACE == 125
COLON == 58
MINUS == 45
NullText == <<110, 117, 108, 108>>
TrueText == <<116, 114, 117, 101>>
FalseText == <<102, 97, 108, 115, 101>>
Whitespace == {32, 9, 10, 13}
Digit == 48..57

\* Code points of the strings: a, the two characters that are escaped, and
\* one that takes two bytes (e acute).
Chars == {97, QUOTE, BACKSLASH, 233}
Numbers == {0, 10, -7}
Strings == UNION {[1..n -> Chars] : n \in 0..MaxStr}
Atoms ==
    {<<"null">>, <<"bool", TRUE>>, <<"bool", FALSE>>}
    \cup {<<"num", n>> : n \in Numbers}
    \cup {<<"str", str>> : str \in Strings}
Documents == Atoms \cup {<<"obj">>} \cup {<<"obj", <<110>>, a>> : a \in Atoms}

\* message.rs:55-57
Message_new(ty, payload) == [msg_type |-> ty, payload |-> payload]

Messages == {Message_new(ty, d) : ty \in MessageType, d \in Documents}

\* message.rs:18-28
MessageType_into_swapped(ty) ==
    CASE ty = "Handshake" -> 0
      [] ty = "Frame" -> 1
      [] ty = "Close" -> 2
      [] ty = "Ping" -> 4
      [] ty = "Pong" -> 3
MessageType_into(ty) ==
    CASE ty = "Handshake" -> 0
      [] ty = "Frame" -> 1
      [] ty = "Close" -> 2
      [] ty = "Ping" -> 3
      [] ty = "Pong" -> 4

\* message.rs:30-44
MessageType_try_from(ty) ==
    CASE ty = 0 -> <<"Ok", "Handshake">>
      [] ty = 1 -> <<"Ok", "Frame">>
      [] ty = 2 -> <<"Ok", "Close">>
      [] ty = 3 -> <<"Ok", "Ping">>
      [] ty = 4 -> <<"Ok", "Pong">>
      [] OTHER -> <<"Err", "UnknownType">>

\* u32::to_le_bytes and u32::from_le_bytes.  A value of 2^31 or more (a
\* last byte of 128 or more) is represented by 2^31 - 1: both are outside
\* 0..4 and longer than any stream of the model.
U31Max == 2147483647
u32_to_le_bytes(n) ==
    <<n % 256, (n \div 256) % 256, (n \div 65536) % 256,
      (n \div 16777216) % 256>>
u32_from_le_bytes(b) ==
    IF b[4] >= 128 THEN U31Max
    ELSE b[1] + 256 * b[2] + 65536 * b[3] + 16777216 * b[4]

\* ---- serde_json::Value::to_string (message.rs:173) ----
RECURSIVE Digits(_)
Digits(n) ==
    IF n < 10 THEN <<48 + n>> ELSE Digits(n \div 10) \o <<48 + (n % 10)>>

utf8(c) ==
    IF c < 128 THEN <<c>>
    ELSE IF c < 2048 THEN <<192 + (c \div 64), 128 + (c % 64)>>
    ELSE <<224 + (c \div 4096), 128 + ((c \div 64) % 64), 128 + (c % 64)>>

escape_none(c) == utf8(c)
escape(c) == IF c \in {QUOTE, BACKSLASH} THEN <<BACKSLASH, c>> ELSE utf8(c)

RECURSIVE escaped(_)
escaped(str) ==
    IF str = <<>> THEN <<>> ELSE escape(Head(str)) \o escaped(Tail(str))

string_text(str) == <<QUOTE>> \o escaped(str) \o <<QUOTE>>

RECURSIVE to_string(_)
to_string(d) ==
    CASE d[1] = "null" -> NullText
      [] d[1] = "bool" -> IF d[2] THEN TrueText ELSE FalseText
      [] d[1] = "num" ->
           IF d[2] < 0 THEN <<MINUS>> \o Digits(0 - d[2]) ELSE Digits(d[2])
      [] d[1] = "str" -> string_text(d[2])
      [] d[1] = "obj" ->
           IF Len(d) = 1 THEN <<LBRACE, RBRACE>>
           ELSE <<LBRACE>> \o string_text(d[2]) \o <<COLON>>
                \o to_string(d[3]) \o <<RBRACE>>

\* message.rs:172-181: the buffer that encode_to hands to conn.write.
encode_to_buffer(m) ==
    LET payload == to_string(m.payload) IN
    u32_to_le_bytes(MessageType_into(m.msg_type))
    \o u32_to_le_bytes(Len(payload))
    \o payload

\* ---- String::from_utf8 (message.rs:205) ----
RECURSIVE utf8_valid(_, _)
utf8_valid(b, i) ==
    IF i > Len(b) THEN TRUE
    ELSE LET c == b[i]
             cont(j) == j <= Len(b) /\ b[j] >= 128 /\ b[j] <= 191
         IN  IF c < 128 THEN utf8_valid(b, i + 1)
             ELSE IF c >= 194 /\ c <= 223
             THEN cont(i + 1) /\ utf8_valid(b, i + 2)
             ELSE IF c >= 224 /\ c <= 239
             THEN /\ cont(i + 1) /\ cont(i + 2)
                  /\ (c = 224 => b[i + 1] >= 160)
                  /\ (c = 237 => b[i + 1] <= 159)
                  /\ utf8_valid(b, i + 3)
             ELSE IF c >= 240 /\ c <= 244
             THEN /\ cont(i + 1) /\ cont(i + 2) /\ cont(i + 3)
                  /\ (c = 240 => b[i + 1] >= 144)
                  /\ (c = 244 => b[i + 1] <= 143)
                  /\ utf8_valid(b, i + 4)
             ELSE FALSE

\* ---- serde_json::from_str (message.rs:210), on valid UTF-8 ----
\* A parse returns [ok, val, pos]: pos is the position after the value.
\* Of the escapes only \" and \\ are parsed, of the numbers only integers,
\* of the objects only those of at most one member: no other text is sent
\* in the model.
Fail == [ok |-> FALSE, val |-> <<"fail">>, pos |-> 0]
Parsed(v, p) == [ok |-> TRUE, val |-> v, pos |-> p]

RECURSIVE skip_ws(_, _)
skip_ws(b, i) ==
    IF i <= Len(b) /\ b[i] \in Whitespace THEN skip_ws(b, i + 1) ELSE i

has(b, i, lit) ==
    i + Len(lit) - 1 <= Len(b) /\ SubSeq(b, i, i + Len(lit) - 1) = lit

\* The string whose opening quote is before position i.
RECURSIVE parse_str(_, _, _)
parse_str(b, i, acc) ==
    IF i > Len(b) THEN Fail
    ELSE LET c == b[i] IN
         IF c = QUOTE THEN Parsed(acc, i + 1)
         ELSE IF c = BACKSLASH
         THEN IF i + 1 <= Len(b) /\ b[i + 1] \in {QUOTE, BACKSLASH}
              THEN parse_str(b, i + 2, Append(acc, b[i + 1]))
              ELSE Fail
         ELSE IF c < 32 THEN Fail
         ELSE IF c < 128 THEN parse_str(b, i + 1, Append(acc, c))
         ELSE IF c < 224
         THEN parse_str(b, i + 2,
                        Append(acc, (c - 192) * 64 + (b[i + 1] - 128)))
         ELSE IF c < 240
         THEN parse_str(b, i + 3,
                        Append(acc, (c - 224) * 4096 + (b[i + 1] - 128) * 64
                                    + (b[i + 2] - 128)))
         ELSE parse_str(b, i + 4,
                        Append(acc, (c - 240) * 262144
                                    + (b[i + 1] - 128) * 4096
                                    + (b[i + 2] - 128) * 64
                                    + (b[i + 3] - 128)))

RECURSIVE parse_digits(_, _, _)
parse_digits(b, i, acc) ==
    IF i <= Len(b) /\ b[i] \in Digit
    THEN parse_digits(b, i + 1, acc * 10 + (b[i] - 48))
    ELSE Parsed(acc, i)

\* The number that starts at position i with a minus sign or a digit.
parse_num(b, i) ==
    LET neg == b[i] = MINUS
        j == IF neg THEN i + 1 ELSE i
    IN  IF j > Len(b) \/ b[j] \notin Digit THEN Fail
        ELSE LET r == IF b[j] = 48 THEN Parsed(0, j + 1)
                      ELSE parse_digits(b, j, 0)
             IN  IF r.pos <= Len(b) /\ b[r.pos] \in Digit \cup {46, 69, 101}
                 THEN Fail
                 ELSE Parsed(<<"num", IF neg THEN 0 - r.val ELSE r.val>>,
                             r.pos)

RECURSIVE parse_value(_, _)
\* The object whose opening brace is at position i.
parse_object(b, i) ==
    LET j == skip_ws(b, i + 1) IN
    IF j > Len(b) THEN Fail
    ELSE IF b[j] = RBRACE THEN Parsed(<<"obj">>, j + 1)
    ELSE IF b[j] # QUOTE THEN Fail
    ELSE LET k == parse_str(b, j + 1, <<>>) IN
         IF ~k.ok THEN Fail
         ELSE LET c == skip_ws(b, k.pos) IN
              IF c > Len(b) \/ b[c] # COLON THEN Fail
              ELSE LET v == parse_value(b, c + 1) IN
                   IF ~v.ok THEN Fail
                   ELSE LET e == skip_ws(b, v.pos) IN
                        IF e <= Len(b) /\ b[e] = RBRACE
                        THEN Parsed(<<"obj", k.val, v.val>>, e + 1)
                        ELSE Fail

parse_value(b, i) ==
    LET j == skip_ws(b, i) IN
    IF j > Len(b) THEN Fail
    ELSE CASE has(b, j, NullText) -> Parsed(<<"null">>, j + 4)
           [] has(b, j, TrueText) -> Parsed(<<"bool", TRUE>>, j + 4)
           [] has(b, j, FalseText) -> Parsed(<<"bool", FALSE>>, j + 5)
           [] b[j] = QUOTE ->
                LET r == parse_str(b, j + 1, <<>>) IN
                IF r.ok THEN Parsed(<<"str", r.val>>, r.pos) ELSE Fail
           [] b[j] = LBRACE -> parse_object(b, j)
           [] b[j] = MINUS \/ b[j] \in Digit -> parse_num(b, j)
           [] OTHER -> Fail

\* The whole text is one value; anything but whitespace after it is an error.
from_str(b) ==
    LET v == parse_value(b, 1) IN
    IF v.ok /\ skip_ws(b, v.pos) > Len(b) THEN v.val ELSE Fail.val

\* message.rs:205-216: the bytes of the payload buffer become a Message.
decode_payload_bytes(ty, b) ==
    IF ~utf8_valid(b, 1) THEN <<"Err", "Utf8">>
    ELSE IF from_str(b) = Fail.val THEN <<"Err", "Json">>
    ELSE <<"Msg", Message_new(ty, from_str(b))>>

\* ---- NamedPipe::read (windows.rs:176-196) on a buffer of n bytes ----
Min(a, b) == IF a < b THEN a ELSE b
zeros(n) == [i \in 1..n |-> 0]

\* PeekNamedPipe and ReadFile succeed: the handle is valid, the peer there.
ReadFile_ok == conn_open /\ conn_peer
\* read() returns: at once when the handle is invalid or the peer is gone;
\* otherwise ReadFile, on a blocking handle, returns when the pipe holds
\* data (a read of no bytes returns at once).
read_returns(n) == ~ReadFile_ok \/ n = 0 \/ pipe # <<>>
\* ReadFile takes the bytes that are there, at most n; read() ignores
\* bytes_read, the rest of the buffer keeps its zeros.
bytes_read(n) == Min(n, Len(pipe))
read_buffer(n) == SubSeq(pipe, 1, bytes_read(n)) \o zeros(n - bytes_read(n))
\* The same with at most one of the trailing zeros: the first of them
\* already ends the decoding of a payload.
read_payload(n) ==
    SubSeq(pipe, 1, bytes_read(n)) \o zeros(Min(n - bytes_read(n), 1))
pipe_after(n) == SubSeq(pipe, bytes_read(n) + 1, Len(pipe))
\* The first read() that is not filled is recorded.
short_after(which, n) ==
    IF short_at = "none" /\ (~ReadFile_ok \/ bytes_read(n) < n)
    THEN which ELSE short_at

\* What one read() does: its value is that of ReadFile, whatever bytes_read.
NamedPipe_read(n) ==
    <<ReadFile_ok, IF ReadFile_ok THEN bytes_read(n) ELSE 0, n>>

\* ---- the peer ----
RawTypeIds == {1, 5, 256}
RawBodies == {<<>>, <<LBRACE, RBRACE>>, <<LBRACE>>, <<255>>}
RawFrames ==
    {u32_to_le_bytes(t) \o u32_to_le_bytes(l) \o body :
        t \in RawTypeIds, body \in RawBodies, l \in 0..2}
Inputs ==
    {<<"msg", m>> : m \in Messages} \cup {<<"raw", b>> : b \in RawFrames}
    \cup {<<"raw", <<>>>>}

CodecInit ==
    /\ input \in Inputs
    /\ stage = "new"
    /\ unsent = <<>>
    /\ pipe = <<>>
    /\ conn_open = TRUE
    /\ conn_peer = TRUE
    /\ dpc = "idle"
    /\ dec_ty = 0
    /\ dec_len = 0
    /\ decoded = <<"pending">>
    /\ short_at = "none"
    /\ last_read = <<>>

\* message.rs:172-183: the peer encodes a Message; conn.write (of the peer's
\* end) writes the whole buffer or fails.
encode_to ==
    /\ stage = "new"
    /\ input[1] = "msg"
    /\ \E ok \in BOOLEAN :
         unsent' = IF ok THEN encode_to_buffer(input[2]) ELSE <<>>
    /\ stage' = "sent"
    /\ UNCHANGED <<input, pipe, conn_open, conn_peer, dpc, dec_ty, dec_len,
                   decoded, short_at, last_read>>
    /\ UNCHANGED <<ioVars, reqVars>>

\* A peer that writes bytes of its own making.
peer_raw ==
    /\ stage = "new"
    /\ input[1] = "raw"
    /\ unsent' = input[2]
    /\ stage' = "sent"
    /\ UNCHANGED <<input, pipe, conn_open, conn_peer, dpc, dec_ty, dec_len,
                   decoded, short_at, last_read>>
    /\ UNCHANGED <<ioVars, reqVars>>

\* One write of the peer reaches the pipe: some of the bytes, in order.
pipe_deliver ==
    /\ conn_peer
    /\ unsent # <<>>
    /\ \E k \in 1..Len(unsent) :
         /\ pipe' = pipe \o SubSeq(unsent, 1, k)
         /\ unsent' = SubSeq(unsent, k + 1, Len(unsent))
    /\ UNCHANGED <<input, stage, conn_open, conn_peer, dpc, dec_ty, dec_len,
                   decoded, short_at, last_read>>
    /\ UNCHANGED <<ioVars, reqVars>>

\* The peer closes its end.
peer_gone ==
    /\ conn_peer
    /\ conn_peer' = FALSE
    /\ UNCHANGED <<input, stage, unsent, pipe, conn_open, dpc, dec_ty,
                   dec_len, decoded, short_at, last_read>>
    /\ UNCHANGED <<ioVars, reqVars>>

\* ---- Message::decode_from (message.rs:186-217) ----
decode_call ==
    /\ dpc = "idle"
    /\ dpc' = "ty"
    /\ UNCHANGED <<input, stage, unsent, pipe, conn_open, conn_peer, dec_ty,
                   dec_len, decoded, short_at, last_read>>
    /\ UNCHANGED <<ioVars, reqVars>>

\* message.rs:191-196: read the kind; Ok(None) when read() is false.
decode_ty ==
    /\ dpc = "ty"
    /\ read_returns(4)
    /\ short_at' = short_after("ty", 4)
    /\ last_read' = NamedPipe_read(4)
    /\ IF ~ReadFile_ok
       THEN /\ conn_open' = FALSE
            /\ decoded' = <<"None">>
            /\ dpc' = "done"
            /\ UNCHANGED <<pipe, dec_ty>>
       ELSE /\ pipe' = pipe_after(4)
            /\ dec_ty' = u32_from_le_bytes(read_buffer(4))
            /\ IF MessageType_try_from(dec_ty')[1] = "Err"
               THEN /\ decoded' = MessageType_try_from(dec_ty')
                    /\ dpc' = "done"
               ELSE /\ dpc' = "len"
                    /\ UNCHANGED decoded
            /\ UNCHANGED conn_open
    /\ UNCHANGED <<input, stage, unsent, conn_peer, dec_len>>
    /\ UNCHANGED <<ioVars, reqVars>>

\* message.rs:197-200
decode_len ==
    /\ dpc = "len"
    /\ read_returns(4)
    /\ short_at' = short_after("len", 4)
    /\ last_read' = NamedPipe_read(4)
    /\ IF ~ReadFile_ok
       THEN /\ conn_open' = FALSE
            /\ decoded' = <<"Err", "NoLength">>
            /\ dpc' = "done"
            /\ UNCHANGED <<pipe, dec_len>>
       ELSE /\ pipe' = pipe_after(4)
            /\ dec_len' = u32_from_le_bytes(read_buffer(4))
            /\ dpc' = "payload"
            /\ UNCHANGED <<conn_open, decoded>>
    /\ UNCHANGED <<input, stage, unsent, conn_peer, dec_ty>>
    /\ UNCHANGED <<ioVars, reqVars>>

\* message.rs:201-216
decode_payload ==
    /\ dpc = "payload"
    /\ read_returns(dec_len)
    /\ short_at' = short_after("payload", dec_len)
    /\ last_read' = NamedPipe_read(dec_len)
    /\ IF ~ReadFile_ok
       THEN /\ conn_open' = FALSE
            /\ decoded' = <<"Err", "Partial">>
            /\ UNCHANGED pipe
       ELSE /\ pipe' = pipe_after(dec_len)
            /\ decoded' = decode_payload_bytes(MessageType_try_from(dec_ty)[2],
                                               read_payload(dec_len))
            /\ UNCHANGED conn_open
    /\ dpc' = "done"
    /\ UNCHANGED <<input, stage, unsent, conn_peer, dec_ty, dec_len>>
    /\ UNCHANGED <<ioVars, reqVars>>

CodecNext ==
    \/ encode_to \/ peer_raw \/ pipe_deliver \/ peer_gone
    \/ decode_call \/ decode_ty \/ decode_len \/ decode_payload

CodecStart == IoInit /\ peer_up = TRUE /\ ReqIdle /\ CodecInit
CodecSpec == CodecStart /\ [][CodecNext]_vars

(***************************************************************************)
(* Properties of the codec                                                 *)
(***************************************************************************)
\* C13: when every read() of decode_from was filled, decoding the bytes that
\* encode_to made of a Message m returns a Message of the kind and with the
\* payload of m, for each of the five kinds and every payload document.
C13_RoundTrip ==
    (dpc = "done" /\ input[1] = "msg" /\ short_at = "none")
    => decoded = <<"Msg", input[2]>>

C13_Witness ==
    /\ dpc = "done" /\ short_at = "none"
    /\ input = <<"msg", Message_new("Frame", <<"obj", <<110>>,
                                               <<"str", <<QUOTE>>>>>>)>>
    /\ decoded = <<"Msg", input[2]>>

\* C14: when a read() after the kind finds fewer bytes than the frame needs
\* (the length is missing, or the payload is shorter than declared),
\* decode_from returns one of its two truncated-frame errors, never a
\* Message and never another result.
C14_AllOrNothing ==
    (dpc = "done" /\ short_at \in {"len", "payload"})
    => decoded \in {<<"Err", "NoLength">>, <<"Err", "Partial">>}

\* C15: the kinds map one to one to the wire integers 0..4 (Handshake=0,
\* Frame=1, Close=2, Ping=3, Pong=4), both ways; decode_from returns the
\* unknown-type error and no Message for a type identifier outside 0..4, and
\* a Message it returns has the kind of the identifier read.
C15_KindWireBijection ==
    /\ \A ty \in MessageType :
         MessageType_try_from(MessageType_into(ty)) = <<"Ok", ty>>
    /\ \A n \in 0..4 :
         /\ MessageType_try_from(n)[1] = "Ok"
         /\ MessageType_into(MessageType_try_from(n)[2]) = n
    /\ [ty \in MessageType |-> MessageType_into(ty)]
         = [Handshake |-> 0, Frame |-> 1, Close |-> 2, Ping |-> 3, Pong |-> 4]
    /\ (dpc \notin {"idle", "ty"} /\ dec_ty \notin 0..4)
         => (dpc = "done" /\ decoded = <<"Err", "UnknownType">>)
    /\ decoded[1] = "Msg"
         => (dec_ty \in 0..4 /\ MessageType_into(decoded[2].msg_type) = dec_ty)

C15_Witness ==
    dpc = "done" /\ dec_ty = 256 /\ decoded = <<"Err", "UnknownType">>

\* C16: a decode_from that finds no data on an open, served pipe returns
\* Ok(None) (its first read can return), and an Ok(None) leaves the
\* connection open.
C16_IdlePollIsNone ==
    /\ (dpc = "ty" /\ conn_open /\ conn_peer /\ pipe = <<>>)
         => ENABLED decode_ty
    /\ (dpc = "done" /\ decoded = <<"None">>) => conn_open

\* C23: read(buffer) is a poll that does not block and is true only for a
\* buffer it filled: on an open transport every read() of decode_from can
\* return whatever the pipe holds, and a read() that put fewer bytes into the
\* buffer than its length returned false.
C23_ReadIsNonBlockingPoll ==
    /\ (dpc = "ty" /\ conn_open) => ENABLED decode_ty
    /\ (dpc = "len" /\ conn_open) => ENABLED decode_len
    /\ (dpc = "payload" /\ conn_open) => ENABLED decode_payload
    /\ (last_read # <<>> /\ last_read[1]) => last_read[2] = last_read[3]

====
